---------------------------- MODULE Spec2Model ----------------------------
(***************************************************************************)
(* A model of scrape_with_icrawler.py: the report parser                   *)
(* (parse_skin_words), the folder-name sanitizer (sanitize_folder_name),   *)
(* the per-entity scraping step (scrape_images) and the orchestration in   *)
(* main.                                                                   *)
(*                                                                         *)
(* A Python str is modelled as a sequence of characters; a character is a  *)
(* one-character TLA+ string, except the code point U+2102 (DOUBLE-STRUCK  *)
(* CAPITAL C), which is written "U+2102": it stands for the upper-case     *)
(* letters of Unicode that have no lower-case mapping, which str.lower()   *)
(* leaves as they are.                                                     *)
(***************************************************************************)
EXTENDS Integers, Sequences, FiniteSets, TLC

VARIABLES
    pc,               \* position of main / of the harness of a pure function
    fileState,        \* skin_word.txt: "missing", "file" or "unreadable"
    file,             \* the lines of skin_word.txt, without their "\n"
    parsed,           \* TRUE once parse_skin_words has been called
    diseases,         \* main's local `diseases`
    outDir,           \* TRUE once output_dir.mkdir has run
    raw,              \* what input() returned
    response,         \* main's local `response`
    idx,              \* the number of loop iterations main has finished
    results,          \* main's local `results`
    total_downloaded, \* main's local `total_downloaded`
    folders,          \* folder name -> number of files, for the folders made
    crawled,          \* the diseases scrape_images was called with, in order
    events,           \* what the environment did in each loop iteration
    name,             \* the argument of sanitize_folder_name under test
    ret,              \* what its last call returned
    prev,             \* what the call before the last returned
    ncalls            \* how many calls were made

vars == <<pc, fileState, file, parsed, diseases, outDir, raw, response, idx,
          results, total_downloaded, folders, crawled, events,
          name, ret, prev, ncalls>>

mainVars == <<fileState, file, parsed, diseases, outDir, raw, response, idx,
              results, total_downloaded, folders, crawled, events>>

sanVars == <<name, ret, prev, ncalls>>

-----------------------------------------------------------------------------
(* Bounds of the model. *)

MaxNameLen == 4     \* longest generated argument of sanitize_folder_name
MaxLineLen == 3     \* longest generated report line
MaxContext == 2     \* report lines around the generated line
MaxNew == 2         \* files one crawl saves

-----------------------------------------------------------------------------
(* Characters and the str methods the code uses. *)

\* str.isspace() / the regex class \s (the "\n" that ends a line included).
Whitespace == {" ", "\t", "\n", "\r", "\f"}

\* The regex class \d.
Digit == {"0", "1", "2", "3", "4", "5", "6", "7", "8", "9"}

\* The character class of line 51.
Reserved == {"<", ">", ":", "\"", "/", "\\", "|", "?", "*"}

UpperAscii == {"A", "B", "C", "D", "E", "F", "G", "H", "I", "J", "K", "L", "M",
               "N", "O", "P", "Q", "R", "S", "T", "U", "V", "W", "X", "Y", "Z"}

\* str.isupper() of one character.
IsUpper(c) == c \in UpperAscii \cup {"U+2102"}

\* str.lower() of one character: only a character with a lower-case mapping
\* changes.
LowerChar(c) ==
    CASE c = "A" -> "a" [] c = "B" -> "b" [] c = "C" -> "c" [] c = "D" -> "d"
      [] c = "E" -> "e" [] c = "F" -> "f" [] c = "G" -> "g" [] c = "H" -> "h"
      [] c = "I" -> "i" [] c = "J" -> "j" [] c = "K" -> "k" [] c = "L" -> "l"
      [] c = "M" -> "m" [] c = "N" -> "n" [] c = "O" -> "o" [] c = "P" -> "p"
      [] c = "Q" -> "q" [] c = "R" -> "r" [] c = "S" -> "s" [] c = "T" -> "t"
      [] c = "U" -> "u" [] c = "V" -> "v" [] c = "W" -> "w" [] c = "X" -> "x"
      [] c = "Y" -> "y" [] c = "Z" -> "z"
      [] OTHER -> c

\* str.lower().
Lower(s) == [k \in 1..Len(s) |-> LowerChar(s[k])]

\* s[n:]
Drop(s, n) == SubSeq(s, n + 1, Len(s))

\* s[:n]
Take(s, n) == SubSeq(s, 1, IF n < Len(s) THEN n ELSE Len(s))

\* The length of the longest prefix of s made of characters of set.
RECURSIVE PrefixRun(_, _)
PrefixRun(s, set) ==
    IF s # <<>> /\ Head(s) \in set THEN 1 + PrefixRun(Tail(s), set) ELSE 0

\* The length of the longest suffix of s made of characters of set.
RECURSIVE SuffixRun(_, _)
SuffixRun(s, set) ==
    IF s # <<>> /\ s[Len(s)] \in set
    THEN 1 + SuffixRun(SubSeq(s, 1, Len(s) - 1), set)
    ELSE 0

\* str.strip(chars): the leading and the trailing characters of set removed.
StripSet(s, set) ==
    LET a == PrefixRun(s, set)
        t == Drop(s, a)
    IN  SubSeq(t, 1, Len(t) - SuffixRun(t, set))

\* str.strip()
Strip(s) == StripSet(s, Whitespace)

\* str.startswith(p)
StartsWith(s, p) == Len(s) >= Len(p) /\ SubSeq(s, 1, Len(p)) = p

\* p in s
Contains(s, p) ==
    \E k \in 0..(Len(s) - Len(p)) : SubSeq(s, k + 1, k + Len(p)) = p

-----------------------------------------------------------------------------
(* sanitize_folder_name *)

\* ReplaceReserved with the backslash of the character class left unescaped,
\* so that the class no longer holds it.
ReplaceReserved_unescaped(s) ==
    [k \in 1..Len(s) |-> IF s[k] \in Reserved \ {"\\"} THEN "_" ELSE s[k]]

\* re.sub(r'[<>:"/\\|?*]', '_', name)
ReplaceReserved(s) ==
    [k \in 1..Len(s) |-> IF s[k] \in Reserved THEN "_" ELSE s[k]]

\* re.sub(r'[\s_]+', '_', safe_name): every maximal run becomes one "_".
RECURSIVE CollapseRuns(_)
CollapseRuns(s) ==
    LET run == Whitespace \cup {"_"}
    IN  IF s = <<>> THEN <<>>
        ELSE IF Head(s) \in run
             THEN <<"_">> \o CollapseRuns(Drop(s, PrefixRun(s, run)))
             ELSE <<Head(s)>> \o CollapseRuns(Tail(s))

\* sanitize_folder_name with the underscores trimmed before the runs are
\* collapsed.
sanitize_strip_first(s) ==
    Lower(CollapseRuns(StripSet(ReplaceReserved(s), {"_"})))

sanitize_folder_name(s) ==
    Lower(StripSet(CollapseRuns(ReplaceReserved(s)), {"_"}))


-----------------------------------------------------------------------------
(* parse_skin_words *)

DISEASE_COUNT == <<"D", "I", "S", "E", "A", "S", "E", " ", "C", "O", "U", "N", "T">>
Total_rows == <<"T", "o", "t", "a", "l", " ", "r", "o", "w", "s">>
Unique_diseases == <<"U", "n", "i", "q", "u", "e", " ", "d", "i", "s", "e", "a", "s", "e", "s">>

\* IsSkipped with the second test (line 36) left out.
IsSkipped_separators_only(line) ==
    \/ line = <<>>
    \/ StartsWith(line, <<"=">>)
    \/ StartsWith(line, <<"-">>)

\* Lines 34-37: the two tests that `continue`, on the stripped line.
IsSkipped(line) ==
    \/ line = <<>>
    \/ StartsWith(line, <<"=">>)
    \/ StartsWith(line, <<"-">>)
    \/ Contains(line, DISEASE_COUNT)
    \/ Contains(line, Total_rows)
    \/ Contains(line, Unique_diseases)

\* TailMatches with \s* in place of \s+.
TailMatches_optional_space(r) ==
    \E k \in 0..(Len(r) - 1) :
        /\ \A j \in 1..k : r[j] \in Whitespace
        /\ \A j \in (k + 1)..Len(r) : r[j] \in Digit

\* Whether r, the text after group 1, matches \s+\d+$ as a whole.  (The line
\* was stripped, so the place before a final "\n", where $ matches too, does
\* not occur.)
TailMatches(r) ==
    \E k \in 1..(Len(r) - 1) :
        /\ \A j \in 1..k : r[j] \in Whitespace
        /\ \A j \in (k + 1)..Len(r) : r[j] \in Digit

\* Whether r starts with \s+\d+ (the pattern without its $).
TailStarts(r) ==
    LET w == PrefixRun(r, Whitespace)
    IN  w >= 1 /\ PrefixRun(Drop(r, w), Digit) >= 1

\* Match with the $ of the pattern left out.
Match_unanchored(line) ==
    LET ends == {n \in 1..Len(line) :
                    /\ \A j \in 1..n : line[j] # "\n"
                    /\ TailStarts(Drop(line, n))}
    IN  IF ends = {} THEN <<>>
        ELSE <<Take(line, CHOOSE n \in ends : \A m \in ends : n <= m)>>

\* re.match(r'^(.+?)\s+\d+$', line): <<>> for None, else <<group 1>>.  The
\* lazy (.+?) takes the shortest prefix of one or more characters other than
\* "\n" after which the rest of the pattern matches.
Match(line) ==
    LET ends == {n \in 1..Len(line) :
                    /\ \A j \in 1..n : line[j] # "\n"
                    /\ TailMatches(Drop(line, n))}
    IN  IF ends = {} THEN <<>>
        ELSE <<Take(line, CHOOSE n \in ends : \A m \in ends : n <= m)>>

\* One iteration of the loop (lines 32-44), on a line as the file yields it:
\* the names it appends to `diseases`.
ParseLine(rawline) ==
    LET line == Strip(rawline)
    IN  IF IsSkipped(line) THEN <<>>
        ELSE LET match == Match(line)
             IN  IF match = <<>> THEN <<>>
                 ELSE LET disease_name == Strip(match[1])
                      IN  IF disease_name # <<>> THEN <<disease_name>>
                          ELSE <<>>

\* `for line in f`: a line comes with the "\n" that ends it.
ReadLine(l) == l \o <<"\n">>

\* ParseFrom that appends a name only when `diseases` does not hold it yet.
RECURSIVE ParseFrom_unique(_, _)
ParseFrom_unique(lines, acc) ==
    IF lines = <<>> THEN acc
    ELSE LET got == ParseLine(ReadLine(Head(lines)))
         IN  ParseFrom_unique(Tail(lines),
                 IF got # <<>> /\ \E k \in 1..Len(acc) : acc[k] = got[1]
                 THEN acc ELSE acc \o got)

\* ParseFrom that leaves the loop at the first line that is read but does not
\* match.
RECURSIVE ParseFrom_break(_, _)
ParseFrom_break(lines, acc) ==
    IF lines = <<>> THEN acc
    ELSE LET line == Strip(ReadLine(Head(lines)))
         IN  IF ~IsSkipped(line) /\ Match(line) = <<>> THEN acc
             ELSE ParseFrom_break(Tail(lines),
                      acc \o ParseLine(ReadLine(Head(lines))))

\* The loop of lines 31-44 over the lines left, `acc` being `diseases`.
RECURSIVE ParseFrom(_, _)
ParseFrom(lines, acc) ==
    IF lines = <<>> THEN acc
    ELSE ParseFrom(Tail(lines), acc \o ParseLine(ReadLine(Head(lines))))

parse_skin_words(f) == ParseFrom(f, <<>>)

-----------------------------------------------------------------------------
(* The sanitizer on its own: sanitize_folder_name is called on a name, then *)
(* on its own result.                                                       *)

SeqsUpTo(S, n) == UNION {[1..k -> S] : k \in 0..n}

\* The characters the generated names are made of: a letter with a lower-case
\* mapping, a lower-case letter, two whitespace characters, the underscore, a
\* reserved character, a character that is none of these, and an upper-case
\* letter without a lower-case mapping.
SanAlphabet == {"A", "b", " ", "\t", "_", "/", "(", "U+2102"}

\* The names of the documented examples.
SanExamples ==
    { <<"A", "c", "n", "e", " ", "(", "M", "i", "l", "d", ")">>,
      <<"A", "/", "B", ":", "C">>,
      <<" ", " ", " ">>,
      <<"a", "<", "b", ">", "c", "\"", "d", "\\", "e", "|", "f", "?", "g", "*", "h">> }

SanNames == SeqsUpTo(SanAlphabet, MaxNameLen) \cup SanExamples

MainIdle ==
    /\ fileState = "file" /\ file = <<>> /\ parsed = FALSE /\ diseases = <<>>
    /\ outDir = FALSE /\ raw = <<>> /\ response = <<>> /\ idx = 0
    /\ results = <<>> /\ total_downloaded = 0 /\ folders = {}
    /\ crawled = <<>> /\ events = <<>>

SanIdle == name = <<>> /\ ret = <<>> /\ prev = <<>> /\ ncalls = 0

SanInit ==
    /\ pc = "sanitize"
    /\ MainIdle
    /\ name \in SanNames
    /\ ret = <<>> /\ prev = <<>> /\ ncalls = 0

\* folder_name = sanitize_folder_name(disease)
SanCall ==
    /\ pc = "sanitize" /\ ncalls = 0
    /\ ret' = sanitize_folder_name(name)
    /\ prev' = ret
    /\ ncalls' = 1
    /\ UNCHANGED <<pc, name, mainVars>>

\* the same call, on the folder name the first call returned
SanAgain ==
    /\ pc = "sanitize" /\ ncalls = 1
    /\ ret' = sanitize_folder_name(ret)
    /\ prev' = ret
    /\ ncalls' = 2
    /\ UNCHANGED <<pc, name, mainVars>>

SanNext == SanCall \/ SanAgain

SpecSanitize == SanInit /\ [][SanNext]_vars

-----------------------------------------------------------------------------
(* The parser on its own: parse_skin_words is called on a report. *)

\* The characters the generated lines are made of.
LineAlphabet == {"a", " ", "1"}

\* Lines of each kind the parser tells apart.
LineExamples ==
    { <<"A", "c", "n", "e", " ", "1", "2", "0">>,
      <<" ", " ", "A", "c", "n", "e", " ", "V", "u", "l", "g", "a", "r", "i", "s", " ", " ", " ", "1", "5", " ", " ">>,
      <<"A", "c", "n", "e", " ", "1", "2", " ", "3", "4">>,
      <<"A", "c", "n", "e", "\t", "7">>,
      <<"1", "2", "0">>,
      <<"A", "c", "n", "e">>,
      <<"=", "=", "=", "=", "=">>,
      <<"-", "-", "-", "-", "-">>,
      <<"-", "x", " ", "5">>,
      <<"=", " ", "3">>,
      <<"D", "I", "S", "E", "A", "S", "E", " ", "C", "O", "U", "N", "T">>,
      <<"N", "a", "m", "e", " ", "D", "I", "S", "E", "A", "S", "E", " ", "C", "O", "U", "N", "T", " ", "2">>,
      <<"T", "o", "t", "a", "l", " ", "r", "o", "w", "s", ":", " ", "5">>,
      <<"U", "n", "i", "q", "u", "e", " ", "d", "i", "s", "e", "a", "s", "e", "s", ":", " ", "3">>,
      <<"x", " ", "T", "o", "t", "a", "l", " ", "r", "o", "w", "s", " ", "5">>,
      <<"t", "o", "t", "a", "l", " ", "r", "o", "w", "s", " ", "5">>,
      <<"A", "c", "n", "e", " ", "1", "2", "a">>,
      <<"A", "c", "n", "e", "1", "2">>,
      <<"T", "i", "n", "e", "a", " ", "(", "B", ")", " ", "9">> }

\* The lines a generated or example line stands among.
ContextLines ==
    { <<"A", "c", "n", "e", " ", "1", "2", "0">>,
      <<"E", "c", "z", "e", "m", "a", " ", "7">>,
      <<"=", "=", "=", "=", "=">>,
      <<"T", "o", "t", "a", "l", " ", "r", "o", "w", "s", ":", " ", "5">>,
      <<>>,
      <<"A", "c", "n", "e">> }

LinePool == SeqsUpTo(LineAlphabet, MaxLineLen) \cup LineExamples

\* ctx with line put in after its first p lines
InsertAt(ctx, p, line) == SubSeq(ctx, 1, p) \o <<line>> \o Drop(ctx, p)

Reports ==
    {InsertAt(c[1], c[2], c[3]) :
        c \in {x \in SeqsUpTo(ContextLines, MaxContext) \X (0..MaxContext) \X LinePool :
                  x[2] <= Len(x[1])}}

ParseInit ==
    /\ pc = "parse"
    /\ SanIdle
    /\ fileState = "file"
    /\ file \in Reports
    /\ parsed = FALSE /\ diseases = <<>>
    /\ outDir = FALSE /\ raw = <<>> /\ response = <<>> /\ idx = 0
    /\ results = <<>> /\ total_downloaded = 0 /\ folders = {}
    /\ crawled = <<>> /\ events = <<>>

\* diseases = parse_skin_words(skin_words_file)
ParseCall ==
    /\ pc = "parse"
    /\ diseases' = parse_skin_words(file)
    /\ parsed' = TRUE
    /\ pc' = "parsed"
    /\ UNCHANGED <<fileState, file, outDir, raw, response, idx, results,
                   total_downloaded, folders, crawled, events, sanVars>>

ParseNext == ParseCall

SpecParse == ParseInit /\ [][ParseNext]_vars

-----------------------------------------------------------------------------
(* scrape_images and main *)

IMAGES_PER_SEARCH == 50

\* The reports main is run on.
MainReports ==
    { <<<<"D", "I", "S", "E", "A", "S", "E", " ", "C", "O", "U", "N", "T">>,
            <<"=", "=", "=", "=", "=">>,
            <<"A", "c", "n", "e", " ", "1", "2", "0">>,
            <<"E", "c", "z", "e", "m", "a", " ", "4", "5">>,
            <<"a", "c", "n", "e", " ", "3">>,
            <<"T", "i", "n", "e", "a", " ", "(", "B", ")", " ", "9">>,
            <<"-", "-", "-", "-", "-">>,
            <<"T", "o", "t", "a", "l", " ", "r", "o", "w", "s", ":", " ", "4">>>>,
      <<>>,
      <<<<"A", "c", "n", "e", " ", "1", "2", "0">>>>,
      <<<<"/", " ", "5">>,
            <<"A", "c", "n", "e", " ", "1">>,
            <<"A", "c", "n", "e", " ", "2">>>>,
      <<<<"=", "=", "=", "=", "=">>,
            <<"T", "o", "t", "a", "l", " ", "r", "o", "w", "s", ":", " ", "0">>>> }

\* What the user may type at the prompt (input() returns it without the
\* newline).
YesResponses == {<<"y">>, <<"Y">>, <<" ", "y", " ">>}
TestResponses == {<<"t", "e", "s", "t">>, <<" ", "T", "E", "S", "T", " ">>}
OtherResponses == {<<"n">>, <<>>, <<"y", "e", "s">>, <<"t", " ", "e", "s", "t">>}
Responses == YesResponses \cup TestResponses \cup OtherResponses

\* How many files the folder holds: len(list(disease_folder.glob('*'))).
\* `folders` is a set of <<folder name, files>> pairs, one per folder made.
FileCount(fs, folder_name) ==
    IF \E f \in fs : f[1] = folder_name
    THEN (CHOOSE f \in fs : f[1] = folder_name)[2]
    ELSE 0

\* scrape_images without its try/except: what the crawler raises leaves the
\* function.
scrape_images_uncaught(disease, fs, mkdir_ok, raised, saved) ==
    LET folder_name == sanitize_folder_name(disease)
        existing_count == FileCount(fs, folder_name)
        new_count == existing_count + saved
    IN  IF ~mkdir_ok \/ raised
        THEN [raises |-> TRUE, count |-> 0, folder |-> folder_name,
              files |-> IF mkdir_ok THEN new_count ELSE existing_count]
        ELSE [raises |-> FALSE, count |-> new_count - existing_count,
              folder |-> folder_name, files |-> new_count]

\* scrape_images(disease, output_base, num_images, use_bing), in a file system
\* whose folders are fs.  The environment decides whether mkdir succeeds,
\* whether the crawler raises, and how many files it has saved by then.
\* mkdir is outside the try, so its exception leaves the function; what the
\* crawler raises is caught and 0 is returned.
scrape_images(disease, fs, mkdir_ok, raised, saved) ==
    LET folder_name == sanitize_folder_name(disease)
        existing_count == FileCount(fs, folder_name)
        new_count == existing_count + saved
    IN  IF ~mkdir_ok
        THEN [raises |-> TRUE, count |-> 0, folder |-> folder_name,
              files |-> existing_count]
        ELSE IF raised
        THEN [raises |-> FALSE, count |-> 0, folder |-> folder_name,
              files |-> new_count]
        ELSE [raises |-> FALSE, count |-> new_count - existing_count,
              folder |-> folder_name, files |-> new_count]

\* Normalize without .lower()
Normalize_no_lower(r) == Strip(r)

\* input(...).strip().lower()
Normalize(r) == Lower(Strip(r))

MainInit ==
    /\ pc = "start"
    /\ SanIdle
    /\ fileState \in {"missing", "file", "unreadable"}
    /\ file \in (IF fileState = "file" THEN MainReports ELSE {<<>>})
    /\ parsed = FALSE /\ diseases = <<>>
    /\ outDir = FALSE /\ raw = <<>> /\ response = <<>> /\ idx = 0
    /\ results = <<>> /\ total_downloaded = 0 /\ folders = {}
    /\ crawled = <<>> /\ events = <<>>

\* MainMissing without its return: the error is printed and main goes on.
MainMissing_no_return ==
    /\ pc = "start" /\ fileState = "missing"
    /\ parsed' = TRUE
    /\ pc' = "crashed"
    /\ UNCHANGED <<fileState, file, diseases, outDir, raw, response, idx,
                   results, total_downloaded, folders, crawled, events, sanVars>>

\* Lines 114-116: the file is not there; main prints the error and returns.
MainMissing ==
    /\ pc = "start" /\ fileState = "missing"
    /\ pc' = "notfound"
    /\ UNCHANGED <<mainVars, sanVars>>

\* Line 118, the file being there but not readable: open() raises inside
\* parse_skin_words and nothing catches it.
MainUnreadable ==
    /\ pc = "start" /\ fileState = "unreadable"
    /\ parsed' = TRUE
    /\ pc' = "crashed"
    /\ UNCHANGED <<fileState, file, diseases, outDir, raw, response, idx,
                   results, total_downloaded, folders, crawled, events, sanVars>>

\* Lines 118-138: the report is parsed, the output directory made, and main
\* waits at the prompt.  mkdir may raise, and nothing catches it.
MainParse ==
    /\ pc = "start" /\ fileState = "file"
    /\ parsed' = TRUE
    /\ diseases' = parse_skin_words(file)
    /\ \E mkdir_ok \in BOOLEAN :
           /\ outDir' = mkdir_ok
           /\ pc' = IF mkdir_ok THEN "confirm" ELSE "crashed"
    /\ UNCHANGED <<fileState, file, raw, response, idx, results,
                   total_downloaded, folders, crawled, events, sanVars>>

\* Lines 138-145: the answer is read and decides what main does.
MainConfirm ==
    /\ pc = "confirm"
    /\ \E r \in Responses :
           /\ raw' = r
           /\ response' = Normalize(r)
           /\ IF response' = <<"t", "e", "s", "t">>
              THEN diseases' = Take(diseases, 3) /\ pc' = "loop"
              ELSE IF response' # <<"y">>
              THEN diseases' = diseases /\ pc' = "cancelled"
              ELSE diseases' = diseases /\ pc' = "loop"
    /\ UNCHANGED <<fileState, file, parsed, outDir, idx, results,
                   total_downloaded, folders, crawled, events, sanVars>>

\* Lines 151-155: one iteration of the loop.
MainScrape ==
    /\ pc = "loop" /\ idx < Len(diseases)
    /\ \E mkdir_ok \in BOOLEAN, raised \in BOOLEAN,
          saved \in 0..(IF MaxNew < IMAGES_PER_SEARCH THEN MaxNew
                        ELSE IMAGES_PER_SEARCH) :
           LET disease == diseases[idx + 1]
               r == scrape_images(disease, folders, mkdir_ok, raised, saved)
               made == {f \in folders : f[1] # r.folder}
                           \cup {<<r.folder, r.files>>}
           IN  \* when mkdir raises, the crawler is never reached
               /\ mkdir_ok \/ (~raised /\ saved = 0)
               /\ events' = Append(events,
                                    IF ~mkdir_ok THEN "mkdir_failed"
                                    ELSE IF raised THEN "crawler_raised"
                                    ELSE "crawled")
               /\ crawled' = Append(crawled, disease)
               /\ folders' = IF mkdir_ok THEN made ELSE folders
               /\ IF r.raises
                  THEN /\ pc' = "crashed"
                       /\ UNCHANGED <<idx, results, total_downloaded>>
                  ELSE /\ pc' = "loop"
                       /\ idx' = idx + 1
                       /\ results' = Append(results, <<disease, r.count>>)
                       /\ total_downloaded' = total_downloaded + r.count
    /\ UNCHANGED <<fileState, file, parsed, diseases, outDir, raw, response,
                   sanVars>>

\* Lines 157-170: the loop is over and the summary is printed.
MainSummary ==
    /\ pc = "loop" /\ idx = Len(diseases)
    /\ pc' = "summary"
    /\ UNCHANGED <<mainVars, sanVars>>

Next ==
    \/ MainMissing
    \/ MainUnreadable
    \/ MainParse
    \/ MainConfirm
    \/ MainScrape
    \/ MainSummary

Spec == MainInit /\ [][Next]_vars

-----------------------------------------------------------------------------
(* Claims about sanitize_folder_name, under SpecSanitize. *)

NoReserved(s) == \A k \in 1..Len(s) : s[k] \notin Reserved
NoWhitespace(s) == \A k \in 1..Len(s) : s[k] \notin Whitespace
NoDoubleUnderscore(s) ==
    \A k \in 1..(Len(s) - 1) : ~(s[k] = "_" /\ s[k + 1] = "_")
NoEdgeUnderscore(s) == s = <<>> \/ (s[1] # "_" /\ s[Len(s)] # "_")

\* C1 as stated: the result of sanitize_folder_name holds no reserved
\* character, no whitespace, no two underscores in a row, no underscore at
\* either end, and no upper-case letter.
C1_AsStated ==
    ncalls >= 1 =>
        /\ NoReserved(ret) /\ NoWhitespace(ret)
        /\ NoDoubleUnderscore(ret) /\ NoEdgeUnderscore(ret)
        /\ \A k \in 1..Len(ret) : ~IsUpper(ret[k])

\* C1 as amended: the result of sanitize_folder_name holds no reserved
\* character, no whitespace, no two underscores in a row, no underscore at
\* either end, and no upper-case letter that has a lower-case form (a letter
\* without one, such as U+2102, is kept).
C1_SanitizedShape ==
    ncalls >= 1 =>
        /\ NoReserved(ret) /\ NoWhitespace(ret)
        /\ NoDoubleUnderscore(ret) /\ NoEdgeUnderscore(ret)
        /\ \A k \in 1..Len(ret) : ret[k] \notin UpperAscii

\* A name with every kind of character the steps act on, sanitized to a
\* non-empty folder name.
C1_Witness ==
    /\ ncalls = 1
    /\ name = <<"a", "<", "b", ">", "c", "\"", "d", "\\", "e", "|", "f", "?", "g", "*", "h">>
    /\ ret = <<"a", "_", "b", "_", "c", "_", "d", "_", "e", "_", "f", "_", "g", "_", "h">>

\* C2: sanitize_folder_name is idempotent: called on its own result it
\* returns that result.
C2_Idempotent == ncalls = 2 => ret = prev

\* The second call was made on a result that differs from the original name.
C2_Witness ==
    /\ ncalls = 2 /\ prev # <<>> /\ prev # name
    /\ \E k \in 1..Len(name) : name[k] \in Reserved \cup Whitespace \cup {"_"}

-----------------------------------------------------------------------------
(* Claims about parse_skin_words, under SpecParse. *)

\* What line k of the file yields when it is the whole report.
Yield(k) == parse_skin_words(<<file[k]>>)

\* How many of the first k lines yield a name.
Rank(k) == Cardinality({j \in 1..k : Yield(j) # <<>>})

\* The report format, line by line, on the stripped line: a data line is
\* <name><whitespace><integer count>, and is no separator (a line that starts
\* with "=" or "-") and no header or summary line (a line that holds a marker).
HasTrailingCount(l) ==
    \E i \in 1..Len(l) : \E j \in (i + 1)..(Len(l) - 1) :
        /\ \A m \in (i + 1)..j : l[m] \in Whitespace
        /\ \A m \in (j + 1)..Len(l) : l[m] \in Digit

IsSeparatorLine(l) == l # <<>> /\ l[1] \in {"=", "-"}

HasMarker(l) ==
    \E m \in {DISEASE_COUNT, Total_rows, Unique_diseases} : Contains(l, m)

IsDataLine(rawline) ==
    LET l == Strip(rawline)
    IN  HasTrailingCount(l) /\ ~IsSeparatorLine(l) /\ ~HasMarker(l)

\* How many of the first k lines are data lines.
DataRank(k) == Cardinality({j \in 1..k : IsDataLine(file[j])})

\* The stripped line without its final digit run and the whitespace run
\* before it.
NameOf(l) ==
    LET d == SuffixRun(l, Digit)
        w == SuffixRun(Take(l, Len(l) - d), Whitespace)
    IN  Take(l, Len(l) - d - w)

\* C3: parse_skin_words returns the names in the order of their lines, one
\* entry per line that yields a name: a name on several lines is kept once
\* per line.
C3_FileOrder ==
    pc = "parsed" =>
        /\ Len(diseases) = Rank(Len(file))
        /\ \A k \in 1..Len(file) :
               Yield(k) # <<>> => diseases[Rank(k)] = Yield(k)[1]

\* A report with the same name on its first and third line.
C3_Witness ==
    /\ pc = "parsed"
    /\ file = <<<<"A", "c", "n", "e", " ", "1", "2", "0">>,
             <<"E", "c", "z", "e", "m", "a", " ", "7">>,
             <<"A", "c", "n", "e", " ", "1", "2", "0">>>>
    /\ diseases = <<<<"A", "c", "n", "e">>, <<"E", "c", "z", "e", "m", "a">>, <<"A", "c", "n", "e">>>>

\* C4: a report with N well-formed data lines among blank, header, separator
\* and summary lines yields exactly N names.
C4_CountsDataLines ==
    pc = "parsed" => Len(diseases) = DataRank(Len(file))

\* Two data lines around a separator.
C4_Witness ==
    /\ pc = "parsed"
    /\ file = <<<<"A", "c", "n", "e", " ", "1", "2", "0">>,
             <<"=", "=", "=", "=", "=">>,
             <<"E", "c", "z", "e", "m", "a", " ", "7">>>>
    /\ Len(diseases) = 2

\* C5: every returned name is non-empty, has no whitespace at either end,
\* does not begin with "=" or "-", and holds none of the markers.
C5_NamesWellFormed ==
    pc = "parsed" =>
        \A k \in 1..Len(diseases) :
            LET d == diseases[k]
            IN  /\ d # <<>>
                /\ d[1] \notin Whitespace /\ d[Len(d)] \notin Whitespace
                /\ d[1] \notin {"=", "-"}
                /\ ~HasMarker(d)

\* A summary line and a line that starts with "-", both ending in a count,
\* before a data line.
C5_Witness ==
    /\ pc = "parsed"
    /\ file = <<<<"T", "o", "t", "a", "l", " ", "r", "o", "w", "s", ":", " ", "5">>,
             <<"-", "x", " ", "5">>,
             <<"A", "c", "n", "e", " ", "1", "2", "0">>>>
    /\ diseases = <<<<"A", "c", "n", "e">>>>

\* The lines of seq whose index is not in drop.
RECURSIVE Without(_, _, _)
Without(seq, drop, k) ==
    IF k > Len(seq) THEN <<>>
    ELSE (IF k \in drop THEN <<>> ELSE <<seq[k]>>) \o Without(seq, drop, k + 1)

\* C6: a line that does not end in whitespace and a count after a name (a
\* line that is only a number included) yields no name, and the names of the
\* other lines are extracted as if it were not there.
C6_UnmatchedLinesDropped ==
    pc = "parsed" =>
        LET bad == {k \in 1..Len(file) : ~HasTrailingCount(Strip(file[k]))}
        IN  /\ \A k \in bad : Yield(k) = <<>>
            /\ diseases = parse_skin_words(Without(file, bad, 1))

\* A line without a count and a line that is only a number, before a data line.
C6_Witness ==
    /\ pc = "parsed"
    /\ file = <<<<"A", "c", "n", "e">>,
             <<"1", "2", "0">>,
             <<"E", "c", "z", "e", "m", "a", " ", "7">>>>
    /\ diseases = <<<<"E", "c", "z", "e", "m", "a">>>>

\* C7: the name a data line yields is its stripped line without the final
\* run of whitespace and the final digit run: what is inside the name, an
\* earlier number included, is kept.
C7_NameKeepsInnerText ==
    pc = "parsed" =>
        \A k \in 1..Len(file) :
            IsDataLine(file[k]) =>
                /\ DataRank(k) <= Len(diseases)
                /\ diseases[DataRank(k)] = NameOf(Strip(file[k]))

\* A name that holds whitespace and a number of its own.
C7_Witness ==
    /\ pc = "parsed"
    /\ \E k \in 1..Len(file) : file[k] = <<"A", "c", "n", "e", " ", "1", "2", " ", "3", "4">>
    /\ \E k \in 1..Len(diseases) : diseases[k] = <<"A", "c", "n", "e", " ", "1", "2">>

-----------------------------------------------------------------------------
(* Claims about main and scrape_images, under Spec. *)

IsPrefix(a, b) == Len(a) <= Len(b) /\ a = SubSeq(b, 1, Len(a))

\* C8: a crawler failure for one entity is caught in scrape_images and
\* recorded as 0 downloads, and the loop goes on: results holds one
\* (entity, count) entry per finished iteration, in list order, and after the
\* loop one for every entity of the list, whichever crawler calls failed.
C8_FailureIsolated ==
    /\ Len(results) = idx
    /\ \A k \in 1..Len(results) :
           /\ results[k][1] = diseases[k]
           /\ events[k] = "crawler_raised" => results[k][2] = 0
    /\ \A k \in 1..Len(events) :
           events[k] = "crawler_raised" => k <= Len(results)
    /\ pc = "summary" =>
           /\ Len(results) = Len(diseases)
           /\ \A k \in 1..Len(diseases) : results[k][1] = diseases[k]

\* The loop over four entities is over; the crawler raised for the second
\* and the third, having saved files for the third, and worked for the others.
C8_Witness ==
    /\ pc = "summary" /\ Len(results) = 4
    /\ events = <<"crawled", "crawler_raised", "crawler_raised", "crawled">>
    /\ results[1][2] > 0 /\ results[4][2] > 0
    /\ \E f \in folders : f[1] = sanitize_folder_name(diseases[3]) /\ f[2] > 0

\* C9: with the report file missing, main reports it and returns: the parser
\* is never called, no directory is made and the crawler is never called.
C9_MissingFileHalts ==
    fileState = "missing" =>
        /\ pc \in {"start", "notfound"}
        /\ ~parsed /\ ~outDir /\ folders = {} /\ crawled = <<>>

C9_Witness == fileState = "missing" /\ pc = "notfound"

\* C10: scrape_images is called only after the confirmation: never when the
\* answer, trimmed and lower-cased, is neither "y" nor "test" (main then ends
\* as cancelled); for "test" on the first 3 parsed entities at most, in
\* order; for "y" on every parsed entity, in order.
C10_ConfirmationGates ==
    LET all == parse_skin_words(file)
        running == {"loop", "summary", "crashed"}
    IN  /\ crawled # <<>> => raw \in YesResponses \cup TestResponses
        /\ raw \in OtherResponses =>
               /\ crawled = <<>>
               /\ pc \in {"start", "confirm", "notfound", "crashed", "cancelled"}
        /\ raw \in TestResponses =>
               /\ pc \in running
               /\ IsPrefix(crawled, Take(all, 3))
               /\ pc = "summary" => crawled = Take(all, 3)
        /\ raw \in YesResponses =>
               /\ pc \in running
               /\ IsPrefix(crawled, all)
               /\ pc = "summary" => crawled = all

\* The answer " TEST " on a report of four entities: three were scraped.
C10_Witness ==
    /\ pc = "summary"
    /\ raw = <<" ", "T", "E", "S", "T", " ">>
    /\ Len(parse_skin_words(file)) = 4
    /\ Len(crawled) = 3

=============================================================================
